---- MODULE Spec2Model ----
(***************************************************************************)
(* Approximate C1 spline construction on a multi-patch geometry            *)
(* (gsApproxC1Spline) and the biharmonic driver that owns it               *)
(* (gsBiharmonicArgyris).                                                  *)
(*                                                                         *)
(* Knot values are rationals in [0,1]; they are stored as integers on the  *)
(* grid k/(2*Res), so that 1 is the integer One and 0.5 the integer Half.  *)
(* A knot vector is a record [deg, u, m]: its degree, its unique break     *)
(* points (strictly increasing) and their multiplicities.                  *)
(***************************************************************************)
EXTENDS Integers, Sequences, FiniteSets, Bags, TLC

\* ------------------------------------------------------------- bounds
Res == 2
MaxDeg == 3
MaxMult == 2
MaxReg == 3

One == 2 * Res
Half == Res
Degrees == 2..MaxDeg
Regularities == 0..MaxReg

\* ------------------------------------------------- algorithm constants
p_tilde == 3
r_tilde == p_tilde - 2

\* ------------------------------------------------------------ helpers
Max(a, b) == IF a >= b THEN a ELSE b
Min(a, b) == IF a <= b THEN a ELSE b

RECURSIVE SeqSum(_)
SeqSum(s) == IF s = <<>> THEN 0 ELSE Head(s) + SeqSum(Tail(s))

\* the subsequence of s at the (increasing) indices in idx
RECURSIVE SelectIdx(_, _, _)
SelectIdx(s, keep, i) ==
    IF i > Len(s) THEN <<>>
    ELSE (IF i \in keep THEN <<s[i]>> ELSE <<>>) \o SelectIdx(s, keep, i + 1)

\* ------------------------------------------- gsKnotVector operations
\* gsKnotVector(knots) with the degree deduced from the first multiplicity,
\* given a container of pairwise different knots: degree 0
KnotVectorOfUnique(knots) ==
    [deg |-> 0, u |-> knots, m |-> [i \in 1..Len(knots) |-> 1]]

unique(kv) == kv.u
multiplicities(kv) == kv.m
degree(kv) == kv.deg
Interior(kv) == 2..(Len(kv.u) - 1)

\* number of B-splines of the basis on kv
size(kv) == SeqSum(kv.m) - kv.deg - 1

\* add i knots at both ends; interior knots untouched
degreeIncrease(kv, i) ==
    [deg |-> kv.deg + i,
     u |-> kv.u,
     m |-> [k \in 1..Len(kv.m) |->
              IF k = 1 \/ k = Len(kv.m) THEN kv.m[k] + i ELSE kv.m[k]]]

\* remove i knots at both ends; interior knots untouched
degreeDecrease(kv, i) ==
    [deg |-> kv.deg - i,
     u |-> kv.u,
     m |-> [k \in 1..Len(kv.m) |->
              IF k = 1 \/ k = Len(kv.m) THEN kv.m[k] - i ELSE kv.m[k]]]

\* raise the degree keeping the smoothness: every multiplicity grows by i
degreeElevate(kv, i) ==
    [deg |-> kv.deg + i,
     u |-> kv.u,
     m |-> [k \in 1..Len(kv.m) |-> kv.m[k] + i]]

\* interior multiplicities grow by i (boundary = false)
increaseMultiplicity(kv, i) ==
    [deg |-> kv.deg,
     u |-> kv.u,
     m |-> [k \in 1..Len(kv.m) |->
              IF k \in Interior(kv) THEN kv.m[k] + i ELSE kv.m[k]]]

\* interior multiplicities shrink by i; a knot whose multiplicity drops to
\* zero or below disappears (boundary = false)
reduceMultiplicity(kv, i) ==
    LET keep == {k \in 1..Len(kv.u) : k \notin Interior(kv) \/ kv.m[k] - i > 0}
        low  == [k \in 1..Len(kv.m) |->
                   IF k \in Interior(kv) THEN kv.m[k] - i ELSE kv.m[k]]
    IN [deg |-> kv.deg,
        u |-> SelectIdx(kv.u, keep, 1),
        m |-> SelectIdx(low, keep, 1)]

\* insert knot i times: raise its multiplicity, or add it as a new break point
insertKnot(kv, knot, i) ==
    IF \E k \in 1..Len(kv.u) : kv.u[k] = knot
    THEN [deg |-> kv.deg,
          u |-> kv.u,
          m |-> [k \in 1..Len(kv.m) |->
                   IF kv.u[k] = knot THEN kv.m[k] + i ELSE kv.m[k]]]
    ELSE LET below == {k \in 1..Len(kv.u) : kv.u[k] < knot}
             above == {k \in 1..Len(kv.u) : kv.u[k] > knot}
         IN [deg |-> kv.deg,
             u |-> SelectIdx(kv.u, below, 1) \o <<knot>> \o SelectIdx(kv.u, above, 1),
             m |-> SelectIdx(kv.m, below, 1) \o <<i>> \o SelectIdx(kv.m, above, 1)]

\* gsBSplineBasis::reduceContinuity: every interior knot is inserted i times
reduceContinuity(kv, i) == increaseMultiplicity(kv, i)

\* the k-th knot (from 0) of the knot sequence with repetitions
RECURSIVE KnotAt(_, _, _)
KnotAt(kv, k, j) ==
    IF j >= Len(kv.u) THEN kv.u[Len(kv.u)]
    ELSE IF k < kv.m[j] THEN kv.u[j]
    ELSE KnotAt(kv, k - kv.m[j], j + 1)
knot(kv, k) == KnotAt(kv, k, 1)

\* ------------------------------------------------ knot-space algebra
\* mutant: the spaces are built on the first knot vector
createPlusMinusSpace2_FromFirst(kv1, kv2, kv1_patch, kv2_patch, r) ==
    LET p == Max(degree(kv1), degree(kv2))
        plus == IF p - r # 1 THEN reduceMultiplicity(kv1, 1) ELSE kv1
        dec == degreeDecrease(kv1, 1)
        minus == IF p - r # 1 THEN reduceMultiplicity(dec, 1) ELSE dec
    IN [plus |-> plus, minus |-> minus, diag |-> {}]

\* createPlusMinusSpace, interface overload: result [plus, minus, diag]
createPlusMinusSpace2(kv1, kv2, kv1_patch, kv2_patch, r) ==
    LET p == Max(degree(kv1), degree(kv2))
        diag == (IF unique(kv1) # unique(kv2) THEN {"PlusMinus1"} ELSE {})
           \cup (IF degree(kv1) # degree(kv2) THEN {"PlusMinus2"} ELSE {})
           \cup (IF unique(kv1_patch)[2] # One THEN {"PlusMinus3"} ELSE {})
           \cup (IF multiplicities(kv1) # multiplicities(kv2) THEN {"PlusMinus4"} ELSE {})
        plus == IF p - r # 1 THEN reduceMultiplicity(kv2, 1) ELSE kv2
        dec == degreeDecrease(kv2, 1)
        minus == IF p - r # 1 THEN reduceMultiplicity(dec, 1) ELSE dec
    IN [plus |-> plus, minus |-> minus, diag |-> diag]

\* createPlusMinusSpace, boundary overload
createPlusMinusSpace1(kv1, kv1_patch, r) ==
    LET p == Max(degree(kv1), 0)
        plus == IF p - r # 1 THEN reduceMultiplicity(kv1, 1) ELSE kv1
        dec == degreeDecrease(kv1, 1)
        minus == IF p - r # 1 THEN reduceMultiplicity(dec, 1) ELSE dec
    IN [plus |-> plus, minus |-> minus, diag |-> {}]

\* mutant: the interior multiplicity is raised once too often
createGluingDataSpace_OneMore(kv1, kv2, kv1_patch, kv2_patch) ==
    [kv |-> increaseMultiplicity(
              degreeIncrease(KnotVectorOfUnique(unique(kv2)), p_tilde),
              p_tilde - r_tilde),
     diag |-> IF unique(kv1) # unique(kv2) THEN {"NotMatching"} ELSE {}]

\* createGluingDataSpace: result [kv, diag]
createGluingDataSpace(kv1, kv2, kv1_patch, kv2_patch) ==
    LET knot_vector == unique(kv2)
        diag == IF unique(kv1) # unique(kv2) THEN {"NotMatching"} ELSE {}
    IN [kv |-> increaseMultiplicity(
                 degreeIncrease(KnotVectorOfUnique(knot_vector), p_tilde),
                 p_tilde - r_tilde - 1),
        diag |-> diag]

\* mutant: the continuity of the gluing data is left out of the minimum
createLokalEdgeSpace2_NoGluing(kv_plus, kv_minus, kv_gD_1, kv_gD_2, kv_patch_1, kv_patch_2) ==
    LET p_1 == Max(degree(kv_plus) + degree(kv_gD_1) - 1,
                   degree(kv_minus) + degree(kv_gD_1))
        base == degreeIncrease(KnotVectorOfUnique(unique(kv_plus)), p_1)
        r_plus == degree(kv_plus) - multiplicities(kv_plus)[2]
        r_minus == degree(kv_minus) - multiplicities(kv_minus)[2]
        res == IF unique(kv_plus)[2] # One
               THEN increaseMultiplicity(base, p_1 - Min(r_plus, r_minus) - 1)
               ELSE base
    IN [kv1 |-> res, kv2 |-> res,
        diag |-> IF unique(kv_plus) # unique(kv_minus) THEN {"LokalEdge"} ELSE {}]

\* createLokalEdgeSpace, interface overload: result [kv1, kv2, diag]
createLokalEdgeSpace2(kv_plus, kv_minus, kv_gD_1, kv_gD_2, kv_patch_1, kv_patch_2) ==
    LET p_1 == Max(degree(kv_plus) + degree(kv_gD_1) - 1,
                   degree(kv_minus) + degree(kv_gD_1))
        knots_unique_plus == unique(kv_plus)
        base == degreeIncrease(KnotVectorOfUnique(knots_unique_plus), p_1)
        r_plus == degree(kv_plus) - multiplicities(kv_plus)[2]
        r_minus == degree(kv_minus) - multiplicities(kv_minus)[2]
        r_gD == degree(kv_gD_1) - multiplicities(kv_gD_1)[2]
        r == Min(r_gD, Min(r_plus, r_minus))
        res == IF knots_unique_plus[2] # One
               THEN increaseMultiplicity(base, p_1 - r - 1)
               ELSE base
    IN [kv1 |-> res, kv2 |-> res,
        diag |-> IF knots_unique_plus # unique(kv_minus) THEN {"LokalEdge"} ELSE {}]

\* mutant: only the continuity of the plus space is looked at
createLokalEdgeSpace1_PlusOnly(kv_plus, kv_minus, kv_patch_1) ==
    LET p_1 == Max(degree(kv_plus), degree(kv_minus))
        base == degreeIncrease(KnotVectorOfUnique(unique(kv_plus)), p_1)
        r_plus == degree(kv_plus) - multiplicities(kv_plus)[2]
        res == IF unique(kv_plus)[2] # One
               THEN increaseMultiplicity(base, p_1 - r_plus - 1)
               ELSE base
    IN [kv1 |-> res,
        diag |-> IF unique(kv_plus) # unique(kv_minus) THEN {"LokalEdge"} ELSE {}]

\* createLokalEdgeSpace, boundary overload: result [kv1, diag]
createLokalEdgeSpace1(kv_plus, kv_minus, kv_patch_1) ==
    LET p_1 == Max(degree(kv_plus), degree(kv_minus))
        knots_unique_plus == unique(kv_plus)
        base == degreeIncrease(KnotVectorOfUnique(knots_unique_plus), p_1)
        r_plus == degree(kv_plus) - multiplicities(kv_plus)[2]
        r_minus == degree(kv_minus) - multiplicities(kv_minus)[2]
        r == Min(r_plus, r_minus)
        res == IF knots_unique_plus[2] # One
               THEN increaseMultiplicity(base, p_1 - r - 1)
               ELSE base
    IN [kv1 |-> res,
        diag |-> IF knots_unique_plus # unique(kv_minus) THEN {"LokalEdge"} ELSE {}]

\* ------------------------------------------------------ input families
\* clamped knot vector of degree p with the interior break points ui and
\* their multiplicities mi
KV(p, ui, mi) == [deg |-> p, u |-> <<0>> \o ui \o <<One>>, m |-> <<p + 1>> \o mi \o <<p + 1>>]

Uniform(n, k) == [i \in 1..n |-> k]

InteriorPoints == { <<>>, <<Half>>, <<1>>, <<1, Half>>, <<1, One - 1>>, <<1, Half, One - 1>> }

\* uniform interior multiplicities, and one pattern with a heavier first knot
MultPatterns(n) ==
    {Uniform(n, k) : k \in 1..MaxMult}
    \cup (IF n >= 2 THEN {[i \in 1..n |-> IF i = 1 THEN 2 ELSE 1]} ELSE {})

KnotVectors ==
    UNION { UNION { {KV(p, ui, mi) : mi \in {x \in MultPatterns(Len(ui)) :
                                               \A i \in 1..Len(ui) : x[i] <= p}}
                    : ui \in InteriorPoints } : p \in Degrees }

\* knot vectors of the geometry map of a patch
PatchKnotVectors == { KV(1, <<>>, <<>>), KV(2, <<Half>>, <<1>>) }

\* ------------------------------------------------------------- state
VARIABLES
    m_patches,      \* the multi-patch geometry: topology and geometry bases
    m_multiBasis,   \* the discretisation basis of every patch
    m_options,      \* the option list
    m_bases,        \* gsApproxC1Spline: one container (gsC1Basis) per push_back
    m_matrix,       \* gsApproxC1Spline: the global transformation matrix
    info,           \* diagnostics written to gsInfo
    pc,             \* position of the running call: [at, caller]
    log,            \* the calls made by the current run of compute()
    argyris,        \* gsBiharmonicArgyris: its members
    handed,         \* the mapped basis last given to the assembler or to the norms
    calls,          \* number of init(), compute() and constructSolution() calls so far
    kIn, kOut       \* input and result of one function checked on its own

vars == <<m_patches, m_multiBasis, m_options, m_bases, m_matrix, info, pc, log,
          argyris, handed, calls, kIn, kOut>>

\* ---------------------------------------------------------- geometry
\* sides: 1 west, 2 east, 3 south, 4 north; corners: 1 SW, 2 SE, 3 NW, 4 NE
Sides == 1..4
Corners == 1..4
PS(p, s) == [patch |-> p, side |-> s]
PC(p, c) == [patch |-> p, corner |-> c]
BI(p1, s1, p2, s2) == [first |-> PS(p1, s1), second |-> PS(p2, s2)]

\* one patch
SinglePatch ==
    [nPatches |-> 1,
     interfaces |-> <<>>,
     boundaries |-> <<PS(0, 1), PS(0, 2), PS(0, 3), PS(0, 4)>>,
     vertices |-> << <<PC(0, 1)>>, <<PC(0, 2)>>, <<PC(0, 3)>>, <<PC(0, 4)>> >>]

\* two patches glued along the east side of patch 0 and the west side of patch 1
TwoPatches ==
    [nPatches |-> 2,
     interfaces |-> <<BI(0, 2, 1, 1)>>,
     boundaries |-> <<PS(0, 1), PS(0, 3), PS(0, 4), PS(1, 2), PS(1, 3), PS(1, 4)>>,
     vertices |-> << <<PC(0, 1)>>, <<PC(0, 3)>>, <<PC(1, 2)>>, <<PC(1, 4)>>,
                     <<PC(0, 2), PC(1, 1)>>, <<PC(0, 4), PC(1, 3)>> >>]

\* two patches glued along the north side of patch 0 and the south side of patch 1
TwoPatchesNS ==
    [nPatches |-> 2,
     interfaces |-> <<BI(0, 4, 1, 3)>>,
     boundaries |-> <<PS(0, 1), PS(0, 2), PS(0, 3), PS(1, 1), PS(1, 2), PS(1, 4)>>,
     vertices |-> << <<PC(0, 1)>>, <<PC(0, 2)>>, <<PC(1, 3)>>, <<PC(1, 4)>>,
                     <<PC(0, 3), PC(1, 1)>>, <<PC(0, 4), PC(1, 2)>> >>]

\* two patches glued along all four sides: a closed surface without boundary
TwoPatchesClosed ==
    [nPatches |-> 2,
     interfaces |-> <<BI(0, 2, 1, 1), BI(0, 1, 1, 2), BI(0, 4, 1, 4), BI(0, 3, 1, 3)>>,
     boundaries |-> <<>>,
     vertices |-> << <<PC(0, 1), PC(1, 2)>>, <<PC(0, 2), PC(1, 1)>>,
                     <<PC(0, 3), PC(1, 4)>>, <<PC(0, 4), PC(1, 3)>> >>]

\* two patches glued east to west and west to east: a ring whose south and
\* north sides are boundary
TwoPatchesRing ==
    [nPatches |-> 2,
     interfaces |-> <<BI(0, 2, 1, 1), BI(0, 1, 1, 2)>>,
     boundaries |-> <<PS(0, 3), PS(0, 4), PS(1, 3), PS(1, 4)>>,
     vertices |-> << <<PC(0, 2), PC(1, 1)>>, <<PC(0, 4), PC(1, 3)>>,
                     <<PC(0, 1), PC(1, 2)>>, <<PC(0, 3), PC(1, 4)>> >>]

nPatches == m_patches.nPatches
Patches == 0..(nPatches - 1)

\* mutant: one interface is counted for every patch of the group
SubInterfaces_PerPatch(patchIndex) == Len(patchIndex)

\* gsMultiPatch::computeTopology on the sub-multipatch of the given patches:
\* the interfaces it finds are those between two of these patches
SubInterfaces(patchIndex) ==
    LET among == {patchIndex[j] : j \in 1..Len(patchIndex)}
    IN Cardinality({k \in 1..Len(m_patches.interfaces) :
                      /\ m_patches.interfaces[k].first.patch \in among
                      /\ m_patches.interfaces[k].second.patch \in among})

\* -------------------------------------------------- gsC1Basis container
Unset4 == [s \in 1..4 |-> <<>>]

\* gsC1Basis(m_patches, np): nothing assigned yet
NewContainer(np) ==
    [patch |-> np, inner |-> <<>>,
     plus |-> Unset4, minus |-> Unset4, geo |-> Unset4, gluingData |-> Unset4,
     edge |-> Unset4, vertex |-> Unset4, kind |-> Unset4,
     initialised |-> FALSE, rows |-> 0, cols |-> 0]

\* setBasisPlus, setBasisMinus, setBasisGeo, setBasisGluingData, setEdgeBasis,
\* setVertexBasis, setKindOfVertex: record one value under a side or corner
Set(c, field, at, val) == [c EXCEPT ![field] = [@ EXCEPT ![at] = val]]

\* number of functions of a tensor-product basis <<kv_u, kv_v>>; 0 when unset
TensorSize(b) == IF b = <<>> THEN 0 ELSE size(b[1]) * size(b[2])

\* gsC1Basis::init: freeze the extents of the 9 components
ContainerInit(c) ==
    [c EXCEPT !.initialised = TRUE,
              !.rows = TensorSize(c.inner)
                       + SeqSum([s \in 1..4 |-> TensorSize(c.edge[s])])
                       + SeqSum([k \in 1..4 |-> TensorSize(c.vertex[k])]),
              !.cols = TensorSize(c.inner)]

\* size_rows(), size_cols(); a container on which init() never ran holds
\* whatever its extents were constructed with
size_rows(c, unset) == IF c.initialised THEN c.rows ELSE unset
size_cols(c, unset) == IF c.initialised THEN c.cols ELSE unset

\* ------------------------------------------------ gsApproxC1Spline::init
discreteRegularity == m_options.discreteRegularity

\* component(dir) of a tensor-product basis, dir in {0, 1}
component(tb, dir) == tb[dir + 1]

\* mutant: the edge knots go to the direction across the side
EdgeTensor_Across(dir, kv_edge, kv_geo) ==
    <<IF dir = 0 THEN kv_geo ELSE kv_edge, IF dir = 0 THEN kv_edge ELSE kv_geo>>

\* tensor-product basis with the edge knots in direction dir and the geo
\* knots in the other one
EdgeTensor(dir, kv_edge, kv_geo) ==
    <<IF dir = 0 THEN kv_edge ELSE kv_geo, IF dir = 0 THEN kv_geo ELSE kv_edge>>

\* the containers appended at the start of init()
PushContainers(bases) == bases \o [i \in 1..nPatches |-> NewContainer(i - 1)]

\* interior space of one direction: for r = p - 1 the first and the last
\* interior knot are repeated once more
InnerKnots(kv, r) ==
    IF degree(kv) - r = 1
    THEN LET knot_u == knot(kv, degree(kv) + 1)
             first == IF knot_u # One THEN insertKnot(kv, knot_u, 1) ELSE kv
         IN IF knot_u # Half /\ knot_u # One
            THEN insertKnot(first, One - knot_u, 1)
            ELSE first
    ELSE kv

InnerLoop(bases) ==
    [i \in 1..Len(bases) |->
       IF i <= nPatches
       THEN [bases[i] EXCEPT !.inner =
               <<InnerKnots(m_multiBasis[i - 1][1], discreteRegularity),
                 InnerKnots(m_multiBasis[i - 1][2], discreteRegularity)>>]
       ELSE bases[i]]

\* the knot vectors of the geometry handed to the knot-space functions for
\* the two sides of an interface; patch_basis_2 is built from the second
\* patch, but kv_patch_2 takes the knots of patch_basis_1
PatchKnots(item) ==
    LET dir_1 == IF item.first.side > 2 THEN 0 ELSE 1
        dir_2 == IF item.second.side > 2 THEN 0 ELSE 1
        patch_basis_1 == component(m_patches.basis[item.first.patch], dir_1)
        patch_basis_2 == component(m_patches.basis[item.second.patch], dir_2)
    IN [kv_patch_1 |-> patch_basis_1, kv_patch_2 |-> patch_basis_1]

\* one pass of the loop over the interfaces; st = [bases, diag]
InterfaceBody(st, item) ==
    LET side_1 == item.first.side
        side_2 == item.second.side
        patch_1 == item.first.patch
        patch_2 == item.second.patch
        dir_1 == IF side_1 > 2 THEN 0 ELSE 1
        dir_2 == IF side_2 > 2 THEN 0 ELSE 1
        kv_1 == component(m_multiBasis[patch_1], dir_1)
        kv_2 == component(m_multiBasis[patch_2], dir_2)
        kv_geo_1 == component(m_multiBasis[patch_1], 1 - dir_1)
        kv_geo_2 == component(m_multiBasis[patch_2], 1 - dir_2)
        kv_patch_1 == PatchKnots(item).kv_patch_1
        kv_patch_2 == PatchKnots(item).kv_patch_2
        pm == createPlusMinusSpace2(kv_1, kv_2, kv_patch_1, kv_patch_2, discreteRegularity)
        gd == createGluingDataSpace(kv_1, kv_2, kv_patch_1, kv_patch_2)
        le == createLokalEdgeSpace2(pm.plus, pm.minus, gd.kv, gd.kv, kv_patch_1, kv_patch_2)
        basis_edge_1 == EdgeTensor(dir_1, le.kv1, kv_geo_1)
        basis_edge_2 == EdgeTensor(dir_2, le.kv2, kv_geo_2)
        P1 == patch_1 + 1
        P2 == patch_2 + 1
        b1 == [st.bases EXCEPT ![P1] = Set(@, "plus", side_1, <<pm.plus>>)]
        b2 == [b1 EXCEPT ![P2] = Set(@, "plus", side_2, <<pm.plus>>)]
        b3 == [b2 EXCEPT ![P1] = Set(@, "minus", side_1, <<pm.minus>>)]
        b4 == [b3 EXCEPT ![P2] = Set(@, "minus", side_2, <<pm.minus>>)]
        b5 == [b4 EXCEPT ![P1] = Set(@, "geo", side_1, <<kv_geo_1>>)]
        b6 == [b5 EXCEPT ![P2] = Set(@, "geo", side_2, <<kv_geo_2>>)]
        b7 == [b6 EXCEPT ![P1] = Set(@, "gluingData", side_1, <<gd.kv>>)]
        b8 == [b7 EXCEPT ![P2] = Set(@, "gluingData", side_2, <<gd.kv>>)]
        b9 == [b8 EXCEPT ![P1] = Set(@, "edge", side_1, basis_edge_1)]
        b10 == [b9 EXCEPT ![P2] = Set(@, "edge", side_2, basis_edge_2)]
    IN [bases |-> b10, diag |-> st.diag \cup pm.diag \cup gd.diag \cup le.diag]

RECURSIVE InterfaceLoop(_, _)
InterfaceLoop(st, numInt) ==
    IF numInt > Len(m_patches.interfaces) THEN st
    ELSE InterfaceLoop(InterfaceBody(st, m_patches.interfaces[numInt]), numInt + 1)

\* mutant: the geo basis is stored before its continuity is reduced
BoundaryBody_GeoStoredFirst(st, bit) ==
    LET patch_1 == bit.patch
        side_1 == bit.side
        dir_1 == IF side_1 < 3 THEN 1 ELSE 0
        kv_1 == component(m_multiBasis[patch_1], dir_1)
        basis_geo_1 == component(m_multiBasis[patch_1], 1 - dir_1)
        kv_patch_1 == component(m_patches.basis[patch_1], dir_1)
        pm == createPlusMinusSpace1(kv_1, kv_patch_1, discreteRegularity)
        kv_geo_1 == IF degree(basis_geo_1) - discreteRegularity = 1
                    THEN reduceContinuity(basis_geo_1, 1)
                    ELSE basis_geo_1
        le == createLokalEdgeSpace1(pm.plus, pm.minus, kv_patch_1)
        P1 == patch_1 + 1
        b1 == [st.bases EXCEPT ![P1] = Set(@, "geo", side_1, <<basis_geo_1>>)]
        b2 == [b1 EXCEPT ![P1] = Set(@, "edge", side_1, EdgeTensor(dir_1, le.kv1, kv_geo_1))]
        b3 == [b2 EXCEPT ![P1] = Set(@, "plus", side_1, <<pm.plus>>)]
        b4 == [b3 EXCEPT ![P1] = Set(@, "minus", side_1, <<pm.minus>>)]
    IN [bases |-> b4, diag |-> st.diag \cup pm.diag \cup le.diag]

\* one pass of the loop over the boundary sides
BoundaryBody(st, bit) ==
    LET patch_1 == bit.patch
        side_1 == bit.side
        dir_1 == IF side_1 < 3 THEN 1 ELSE 0
        kv_1 == component(m_multiBasis[patch_1], dir_1)
        basis_geo_1 == component(m_multiBasis[patch_1], 1 - dir_1)
        kv_patch_1 == component(m_patches.basis[patch_1], dir_1)
        pm == createPlusMinusSpace1(kv_1, kv_patch_1, discreteRegularity)
        kv_geo_1 == IF degree(basis_geo_1) - discreteRegularity = 1
                    THEN reduceContinuity(basis_geo_1, 1)
                    ELSE basis_geo_1
        le == createLokalEdgeSpace1(pm.plus, pm.minus, kv_patch_1)
        P1 == patch_1 + 1
        b1 == [st.bases EXCEPT ![P1] = Set(@, "geo", side_1, <<kv_geo_1>>)]
        b2 == [b1 EXCEPT ![P1] = Set(@, "edge", side_1, EdgeTensor(dir_1, le.kv1, kv_geo_1))]
        b3 == [b2 EXCEPT ![P1] = Set(@, "plus", side_1, <<pm.plus>>)]
        b4 == [b3 EXCEPT ![P1] = Set(@, "minus", side_1, <<pm.minus>>)]
    IN [bases |-> b4, diag |-> st.diag \cup pm.diag \cup le.diag]

RECURSIVE BoundaryLoop(_, _)
BoundaryLoop(st, numBdy) ==
    IF numBdy > Len(m_patches.boundaries) THEN st
    ELSE BoundaryLoop(BoundaryBody(st, m_patches.boundaries[numBdy]), numBdy + 1)

\* gsTensorBSplineBasis::reduceContinuity acts on every direction
TensorReduceContinuity(tb, i) == <<reduceContinuity(tb[1], i), reduceContinuity(tb[2], i)>>

\* vertex space of a boundary vertex
BoundaryVertexBasis(tb, r) ==
    IF degree(tb[1]) - r = 1 THEN TensorReduceContinuity(tb, 1) ELSE tb

\* vertex space of an internal or interface-boundary vertex
GluedVertexBasis(tb, r) ==
    LET elevated == <<degreeElevate(tb[1], p_tilde - 1), degreeElevate(tb[2], p_tilde - 1)>>
        minus == IF r # 1 THEN TensorReduceContinuity(elevated, 1) ELSE elevated
    IN IF r_tilde < r - 1 THEN TensorReduceContinuity(minus, r - r_tilde - 1) ELSE minus

\* assign basis and kind to every corner of a group, one after the other
RECURSIVE AssignGroup(_, _, _, _)
AssignGroup(bases, group, kind, j) ==
    IF j > Len(group) THEN bases
    ELSE LET P1 == group[j].patch + 1
             vertex_1 == group[j].corner
             basis == IF kind = -1
                      THEN BoundaryVertexBasis(m_multiBasis[group[j].patch], discreteRegularity)
                      ELSE GluedVertexBasis(m_multiBasis[group[j].patch], discreteRegularity)
             b1 == [bases EXCEPT ![P1] = Set(@, "vertex", vertex_1, basis)]
             b2 == [b1 EXCEPT ![P1] = Set(@, "kind", vertex_1, <<kind>>)]
         IN AssignGroup(b2, group, kind, j + 1)

\* one pass of the loop over the vertex groups
VertexBody(st, allcornerLists) ==
    LET patchIndex == [j \in 1..Len(allcornerLists) |-> allcornerLists[j].patch]
        nInterfaces == SubInterfaces(patchIndex)
    IN IF Len(patchIndex) = 1
       THEN [st EXCEPT !.bases = AssignGroup(st.bases, allcornerLists, -1, 1)]
       ELSE IF Len(patchIndex) > 1
       THEN IF Len(patchIndex) = nInterfaces
            THEN [st EXCEPT !.bases = AssignGroup(st.bases, allcornerLists, 0, 1)]
            ELSE IF Len(patchIndex) > nInterfaces
            THEN [st EXCEPT !.bases = AssignGroup(st.bases, allcornerLists, 1, 1)]
            ELSE st
       ELSE st

RECURSIVE VertexLoop(_, _)
VertexLoop(st, numVer) ==
    IF numVer > Len(m_patches.vertices) THEN st
    ELSE VertexLoop(VertexBody(st, m_patches.vertices[numVer]), numVer + 1)

\* m_bases[np].init() for every patch
InitLocalBases(bases) ==
    [i \in 1..Len(bases) |-> IF i <= nPatches THEN ContainerInit(bases[i]) ELSE bases[i]]

\* an empty sparse matrix of the given size
EmptyMatrix(rows, cols) ==
    [rows |-> rows, cols |-> cols, entries |-> EmptyBag, blocks |-> {},
     compressed |-> FALSE]

\* the containers over which init() sums the extents
SummedContainers(bases) == 1..Len(bases)

\* m_matrix.clear(), the sums of the extents, m_matrix.resize(dim_row, dim_col)
SizedMatrix(bases, unset) ==
    EmptyMatrix(SeqSum([i \in SummedContainers(bases) |-> size_rows(bases[i], unset)]),
                SeqSum([i \in SummedContainers(bases) |-> size_cols(bases[i], unset)]))

\* the whole of init(): result [bases, diag]
InitSpaces(bases) ==
    LET pushed == PushContainers(bases)
        st0 == [bases |-> InnerLoop(pushed), diag |-> {}]
        st1 == InterfaceLoop(st0, 1)
        st2 == BoundaryLoop(st1, 1)
        st3 == VertexLoop(st2, 1)
    IN [bases |-> InitLocalBases(st3.bases), diag |-> st3.diag]

\* --------------------------------------------- gsApproxC1Spline::compute
\* mutant: the interface builders run before the interior loop
PhaseOrder_BuildersFirst == <<"interface", "interior", "boundary", "vertex", "compress">>

\* the order of the loops of compute()
PhaseOrder == <<"interior", "interface", "boundary", "vertex", "compress">>

LoopLen(at) ==
    CASE at = "interior"  -> nPatches
      [] at = "interface" -> Len(m_patches.interfaces)
      [] at = "boundary"  -> Len(m_patches.boundaries)
      [] at = "vertex"    -> Len(m_patches.vertices)
      [] at = "compress"  -> 1

\* the first loop from position k of PhaseOrder on that has a pass to run
RECURSIVE FirstPhase(_)
FirstPhase(k) ==
    IF k > Len(PhaseOrder) THEN "done"
    ELSE IF LoopLen(PhaseOrder[k]) > 0 THEN PhaseOrder[k]
    ELSE FirstPhase(k + 1)

PhaseIndex(at) == CHOOSE k \in 1..Len(PhaseOrder) : PhaseOrder[k] = at

\* the loop compute() runs after loop at
Advance(at) == FirstPhase(PhaseIndex(at) + 1)

\* shift_row and shift_col when the loop reaches patch np
shift_row(np) == SeqSum([k \in 1..np |-> size_rows(m_bases[k], 0)])
shift_col(np) == SeqSum([k \in 1..np |-> size_cols(m_bases[k], 0)])

\* the first index and the margin of the interior loops
InteriorSkip == 2

\* mutant: the column index strides by dim_v
RECURSIVE InteriorInserts_Stride(_, _, _, _, _, _, _)
InteriorInserts_Stride(dim_u, dim_v, sr, sc, j, i, row_i) ==
    IF ~(j < dim_v - InteriorSkip) THEN <<>>
    ELSE IF ~(i < dim_u - InteriorSkip)
         THEN InteriorInserts_Stride(dim_u, dim_v, sr, sc, j + 1, InteriorSkip, row_i)
         ELSE << <<sr + row_i, sc + j * dim_v + i>> >>
              \o InteriorInserts_Stride(dim_u, dim_v, sr, sc, j, i + 1, row_i + 1)

\* the insertions of the interior loops of one patch, in order: <<row, col>>
RECURSIVE InteriorInserts(_, _, _, _, _, _, _)
InteriorInserts(dim_u, dim_v, sr, sc, j, i, row_i) ==
    IF ~(j < dim_v - InteriorSkip) THEN <<>>
    ELSE IF ~(i < dim_u - InteriorSkip)
         THEN InteriorInserts(dim_u, dim_v, sr, sc, j + 1, InteriorSkip, row_i)
         ELSE << <<sr + row_i, sc + j * dim_u + i>> >>
              \o InteriorInserts(dim_u, dim_v, sr, sc, j, i + 1, row_i + 1)

PatchInserts(np) ==
    LET dim_u == size(m_bases[np + 1].inner[1])
        dim_v == size(m_bases[np + 1].inner[2])
    IN InteriorInserts(dim_u, dim_v, shift_row(np), shift_col(np),
                       InteriorSkip, InteriorSkip, 0)

\* whether the matrix already stores an entry at <<row, col>>
Stored(mat, rc) == \E e \in BagToSet(mat.entries) : e[1] = rc[1] /\ e[2] = rc[2]

\* m_matrix.insert(row, col) = 1.0 for every insertion of ins, in order
RECURSIVE InsertAll(_, _, _)
InsertAll(mat, ins, k) ==
    IF k > Len(ins) THEN mat
    ELSE InsertAll([mat EXCEPT !.entries = @ (+) SetToBag({<<ins[k][1], ins[k][2], 1>>}),
                               !.compressed = FALSE], ins, k + 1)

\* the block a builder of gsApproxC1Edge / gsApproxC1Vertex writes
WriteBlock(mat, tag) ==
    [mat EXCEPT !.blocks = @ \cup {[tag |-> tag, factor |-> 1]}, !.compressed = FALSE]

\* gsSparseMatrix::transpose
Transpose(mat) ==
    [mat EXCEPT !.rows = mat.cols, !.cols = mat.rows,
                !.entries = [t \in {<<e[2], e[1], e[3]>> : e \in BagToSet(mat.entries)}
                               |-> mat.entries[<<t[2], t[1], t[3]>>]]]

\* solFull.asDiagonal() * mat, for solFull = f * (1, ..., 1)
Scaled(mat, f) ==
    [mat EXCEPT !.entries = [t \in {<<e[1], e[2], f * e[3]>> : e \in BagToSet(mat.entries)}
                               |-> mat.entries[<<t[1], t[2], t[3] \div f>>]],
                !.blocks = {[tag |-> b.tag, factor |-> f * b.factor] : b \in @}]

\* ------------------------------------------------------ call budgets
\* number of calls of init(), compute() and constructSolution() in one run
MaxCalls == 2

\* ------------------------------------------------------------ inputs
KnotA == KV(3, <<Half>>, <<1>>)
KnotB == KV(3, <<1, Half, One - 1>>, <<1, 1, 1>>)
KnotC == KV(2, <<Half>>, <<1>>)
KnotD == KV(3, <<1>>, <<2>>)

\* discretisation bases <<kv_u, kv_v>> of a patch
PatchBases == { <<KnotA, KnotA>>, <<KnotB, KnotA>>, <<KnotC, KnotB>>, <<KnotA, KnotD>> }

\* discretisation bases of two glued patches: equal bases, other break points
\* across the interface, other degrees, other multiplicities
PatchBasesPairs ==
    { <<b0, b1>> \in PatchBases \X PatchBases :
        \/ b0 = b1 /\ b0[1] # KnotC
        \/ b0 = <<KnotA, KnotA>> /\ b1 = <<KnotB, KnotA>>
        \/ b0 = <<KnotB, KnotA>> /\ b1 = <<KnotA, KnotA>>
        \/ b0 = <<KnotB, KnotA>> /\ b1 = <<KnotC, KnotB>>
        \/ b0 = <<KnotA, KnotD>> /\ b1 = <<KnotA, KnotA>> }

Bilinear == <<KV(1, <<>>, <<>>), KV(1, <<>>, <<>>)>>
Refined == <<KV(2, <<Half>>, <<1>>), KV(2, <<Half>>, <<1>>)>>

\* the geometries and discretisations the spline object is built on
Configurations ==
    { [topology |-> SinglePatch, geometry |-> [q \in 0..0 |-> Bilinear],
       multiBasis |-> [q \in 0..0 |-> b]] : b \in PatchBases }
    \cup { [topology |-> TwoPatches, geometry |-> [q \in 0..1 |-> g[q + 1]],
            multiBasis |-> [q \in 0..1 |-> pair[q + 1]]] :
            pair \in PatchBasesPairs, g \in {<<Bilinear, Bilinear>>, <<Bilinear, Refined>>} }
    \cup { [topology |-> TwoPatchesNS, geometry |-> [q \in 0..1 |-> Bilinear],
            multiBasis |-> [q \in 0..1 |-> pair[q + 1]]] :
            pair \in {x \in PatchBasesPairs : x[1] = <<KnotB, KnotA>>} }
    \cup { [topology |-> t, geometry |-> [q \in 0..1 |-> Bilinear],
            multiBasis |-> [q \in 0..1 |-> <<KnotA, KnotA>>]] :
            t \in {TwoPatchesClosed, TwoPatchesRing} }

\* extents a container may hold before its init() ran
UnsetExtents == {0, 1}

\* values of the solution vector handed back by the assembler
SolFactors == {1, 2}

NoMatrix == EmptyMatrix(0, 0)
NoMappedBasis == [set |-> FALSE, basis |-> <<>>, matrix |-> NoMatrix]
Idle == [at |-> "idle", caller |-> "none"]
NoCall == [op |-> "none"]

InitObjects ==
    /\ m_bases = <<>>
    /\ m_matrix = NoMatrix
    /\ info = {}
    /\ pc = Idle
    /\ log = <<>>
    /\ argyris = [sparseMatrix_argyris |-> NoMatrix,
                  mb_argyris |-> <<>>,
                  mappedBasis |-> NoMappedBasis,
                  g1BiharmonicAssembler |-> [set |-> FALSE, basis |-> NoMappedBasis]]
    /\ handed = [to |-> "none", basis |-> NoMappedBasis]
    /\ calls = 0

Init ==
    /\ \E c \in Configurations :
         /\ m_patches = [nPatches |-> c.topology.nPatches,
                         interfaces |-> c.topology.interfaces,
                         boundaries |-> c.topology.boundaries,
                         vertices |-> c.topology.vertices,
                         basis |-> c.geometry]
         /\ m_multiBasis = c.multiBasis
    /\ m_options \in [discreteRegularity : 1..MaxReg]
    /\ InitObjects
    /\ kIn = NoCall
    /\ kOut = NoCall

\* --------------------------------------------------------- the calls
Inputs == <<m_patches, m_multiBasis, m_options, kIn, kOut>>

\* the body of gsApproxC1Spline::init()
DoInit ==
    \E res \in {InitSpaces(m_bases)} :
       /\ m_bases' = res.bases
       /\ \E unset \in UnsetExtents : m_matrix' = SizedMatrix(res.bases, unset)
       /\ info' = info \cup res.diag
       /\ calls' = calls + 1

\* where compute() starts
StartCompute(caller) ==
    /\ pc' = [at |-> FirstPhase(1), caller |-> caller]
    /\ log' = <<>>

\* gsApproxC1Spline::init() called on the spline object
SplineInit ==
    /\ pc.at = "idle"
    /\ calls < MaxCalls
    /\ DoInit
    /\ UNCHANGED <<Inputs, pc, log, argyris, handed>>

\* gsApproxC1Spline::compute() called on an initialised spline object
SplineCompute ==
    /\ pc.at = "idle"
    /\ calls < MaxCalls
    /\ Len(m_bases) >= nPatches
    /\ StartCompute("spline")
    /\ calls' = calls + 1
    /\ UNCHANGED <<Inputs, m_bases, m_matrix, info, argyris, handed>>

\* where the run stands after the loop at pc
Step ==
    LET nxt == Advance(pc.at)
    IN IF nxt = "done"
       THEN IF pc.caller = "argyris"
            THEN [at |-> "getSystem", caller |-> "argyris"]
            ELSE Idle
       ELSE [at |-> nxt, caller |-> pc.caller]

\* the insertions of the loop over the patches from patch np on, in order:
\* <<np, row, col>>
RECURSIVE InteriorLoop(_)
InteriorLoop(np) ==
    IF np >= nPatches THEN <<>>
    ELSE LET ins == PatchInserts(np)
         IN [k \in 1..Len(ins) |-> <<np, ins[k][1], ins[k][2]>>] \o InteriorLoop(np + 1)

\* the loop over the patches: the interior blocks. Inserting at a position
\* that is already stored breaks the precondition of insert(): the build
\* either stops at the assertion or stores a second entry.
ComputeInterior ==
    /\ pc.at = "interior"
    /\ \E ins \in {InteriorLoop(0)} :
       LET rc == [k \in 1..Len(ins) |-> <<ins[k][2], ins[k][3]>>]
           clash == \E k \in 1..Len(rc) : Stored(m_matrix, rc[k])
       IN \/ /\ m_matrix' = InsertAll(m_matrix, rc, 1)
             /\ log' = log \o [k \in 1..Len(ins) |-> <<"insert">> \o ins[k]]
             /\ pc' = Step
          \/ /\ clash
             /\ pc' = [pc EXCEPT !.at = "crashed"]
             /\ UNCHANGED <<m_matrix, log>>
    /\ UNCHANGED <<Inputs, m_bases, info, argyris, handed, calls>>

\* the blocks written by passes k, k + 1, ... of a builder loop
RECURSIVE WriteBlocks(_, _, _, _)
WriteBlocks(mat, call, k, n) ==
    IF k >= n THEN mat ELSE WriteBlocks(WriteBlock(mat, <<call, k>>), call, k + 1, n)

\* a builder loop: every pass constructs the builder and calls it on m_matrix
Builder(at, call) ==
    /\ pc.at = at
    /\ m_matrix' = WriteBlocks(m_matrix, call, 0, LoopLen(at))
    /\ log' = log \o [k \in 1..LoopLen(at) |-> <<call, k - 1>>]
    /\ pc' = Step
    /\ UNCHANGED <<Inputs, m_bases, info, argyris, handed, calls>>

ComputeInterface == Builder("interface", "saveBasisInterface")
ComputeBoundary == Builder("boundary", "saveBasisBoundary")
ComputeVertex == Builder("vertex", "saveBasisVertex")

\* m_matrix.makeCompressed()
ComputeCompress ==
    /\ pc.at = "compress"
    /\ m_matrix' = [m_matrix EXCEPT !.compressed = TRUE]
    /\ log' = Append(log, <<"makeCompressed", 0>>)
    /\ pc' = Step
    /\ UNCHANGED <<Inputs, m_bases, info, argyris, handed, calls>>

\* gsBiharmonicArgyris::init(), up to the call of compute()
ArgyrisInit ==
    /\ pc.at = "idle"
    /\ calls < MaxCalls
    /\ DoInit
    /\ StartCompute("argyris")
    /\ UNCHANGED <<Inputs, argyris, handed>>

\* gsMappedBasis::init(mb, m)
MappedBasis(mb, m) == [set |-> TRUE, basis |-> mb, matrix |-> m]

\* gsBiharmonicArgyris::init(), after compute() returned
ArgyrisInitFinish ==
    /\ pc.at = "getSystem"
    /\ argyris' = [argyris EXCEPT
                     !.mb_argyris = m_multiBasis,
                     !.sparseMatrix_argyris = m_matrix,
                     !.mappedBasis = MappedBasis(m_multiBasis, Transpose(m_matrix))]
    /\ pc' = Idle
    /\ UNCHANGED <<Inputs, m_bases, m_matrix, info, log, handed, calls>>

\* gsBiharmonicArgyris::assemble()
ArgyrisAssemble ==
    /\ pc.at = "idle"
    /\ argyris' = [argyris EXCEPT
                     !.g1BiharmonicAssembler = [set |-> TRUE, basis |-> argyris.mappedBasis]]
    /\ handed' = [to |-> "assembler", basis |-> argyris.mappedBasis]
    /\ UNCHANGED <<Inputs, m_bases, m_matrix, info, pc, log, calls>>

\* approxC1Spline->setSystem(m)
setSystem(m) == m_matrix' = m

\* gsBiharmonicArgyris::constructSolution(). Before assemble() the assembler
\* pointer holds no object: the call stops the program or reads some vector.
ArgyrisConstructSolution ==
    /\ pc.at = "idle"
    /\ calls < MaxCalls
    /\ \/ /\ \E f \in SolFactors :
               LET scaled == Scaled(argyris.sparseMatrix_argyris, f)
               IN /\ argyris' = [argyris EXCEPT !.sparseMatrix_argyris = scaled]
                  /\ setSystem(scaled)
          /\ calls' = calls + 1
          /\ UNCHANGED pc
       \/ /\ ~argyris.g1BiharmonicAssembler.set
          /\ pc' = [pc EXCEPT !.at = "crashed"]
          /\ UNCHANGED <<argyris, m_matrix, calls>>
    /\ UNCHANGED <<Inputs, m_bases, info, log, handed>>

\* mutant: error() stores the transposed matrix back into the spline object
ArgyrisError_SetsSystem ==
    /\ pc.at = "idle"
    /\ LET mapped == MappedBasis(argyris.mb_argyris, Transpose(argyris.sparseMatrix_argyris))
       IN /\ argyris' = [argyris EXCEPT !.mappedBasis = mapped]
          /\ handed' = [to |-> "norms", basis |-> mapped]
          /\ m_matrix' = mapped.matrix
    /\ UNCHANGED <<Inputs, m_bases, info, pc, log, calls>>

\* gsBiharmonicArgyris::error()
ArgyrisError ==
    /\ pc.at = "idle"
    /\ LET mapped == MappedBasis(argyris.mb_argyris, Transpose(argyris.sparseMatrix_argyris))
       IN /\ argyris' = [argyris EXCEPT !.mappedBasis = mapped]
          /\ handed' = [to |-> "norms", basis |-> mapped]
    /\ UNCHANGED <<Inputs, m_bases, m_matrix, info, pc, log, calls>>

Next ==
    \/ SplineInit
    \/ SplineCompute
    \/ ComputeInterior
    \/ ComputeInterface
    \/ ComputeBoundary
    \/ ComputeVertex
    \/ ComputeCompress
    \/ ArgyrisInit
    \/ ArgyrisInitFinish
    \/ ArgyrisAssemble
    \/ ArgyrisConstructSolution
    \/ ArgyrisError

Spec == Init /\ [][Next]_vars

\* ------------------------------------------- the knot-space functions
\* One call of a knot-space function on inputs drawn from KnotVectors.
InitKnot ==
    /\ m_patches = [nPatches |-> 1, interfaces |-> <<>>,
                    boundaries |-> SinglePatch.boundaries,
                    vertices |-> SinglePatch.vertices,
                    basis |-> [q \in 0..0 |-> Bilinear]]
    /\ m_multiBasis = [q \in 0..0 |-> <<KnotA, KnotA>>]
    /\ InitObjects
    /\ kOut = NoCall
    /\ \E kv1 \in KnotVectors, kv2 \in KnotVectors, kvp \in PatchKnotVectors,
          r \in Regularities :
         /\ kIn = [op |-> "input", kv1 |-> kv1, kv2 |-> kv2,
                   kv1_patch |-> kvp, kv2_patch |-> kvp]
         /\ m_options = [discreteRegularity |-> r]

Objects == <<m_patches, m_multiBasis, m_options, m_bases, m_matrix, info, pc, log,
             argyris, handed, calls>>

Apply(op, res) ==
    /\ kOut = NoCall
    /\ kOut' = [op |-> op, res |-> res]
    /\ UNCHANGED <<Objects, kIn>>

CallPlusMinusSpace2 ==
    Apply("createPlusMinusSpace2",
          createPlusMinusSpace2(kIn.kv1, kIn.kv2, kIn.kv1_patch, kIn.kv2_patch,
                                discreteRegularity))

CallPlusMinusSpace1 ==
    Apply("createPlusMinusSpace1",
          createPlusMinusSpace1(kIn.kv1, kIn.kv1_patch, discreteRegularity))

CallGluingDataSpace ==
    Apply("createGluingDataSpace",
          createGluingDataSpace(kIn.kv1, kIn.kv2, kIn.kv1_patch, kIn.kv2_patch))

\* gluing-data knot vectors over the break points of kv, and one without
\* interior break point
GluingVectors(kv) ==
    { [deg |-> p, u |-> unique(kv),
       m |-> [k \in 1..Len(unique(kv)) |->
                IF k = 1 \/ k = Len(unique(kv)) THEN p + 1 ELSE mi]] :
         p \in Degrees, mi \in 1..MaxMult }
    \cup { [deg |-> p_tilde, u |-> <<0, One>>, m |-> <<p_tilde + 1, p_tilde + 1>>] }

\* kv1 stands for the plus space, kv2 for the minus space
CallLokalEdgeSpace2 ==
    \E gD \in GluingVectors(kIn.kv1) :
       Apply("createLokalEdgeSpace2",
             [gD |-> gD,
              out |-> createLokalEdgeSpace2(kIn.kv1, kIn.kv2, gD, gD,
                                            kIn.kv1_patch, kIn.kv2_patch)])

CallLokalEdgeSpace1 ==
    Apply("createLokalEdgeSpace1",
          createLokalEdgeSpace1(kIn.kv1, kIn.kv2, kIn.kv1_patch))

NextKnot ==
    \/ CallPlusMinusSpace2
    \/ CallPlusMinusSpace1
    \/ CallGluingDataSpace
    \/ CallLokalEdgeSpace2
    \/ CallLokalEdgeSpace1

SpecKnot == InitKnot /\ [][NextKnot]_vars

\* ---------------------------------------------------------- gsFuncData
\* largest patch index handed to the constructor
MaxPatchId == 3

\* the evaluation flags, a bit each
FuncFlags == {"NEED_VALUE", "NEED_DERIV", "NEED_2ND_DER"}

\* the objects of the spline life cycle, untouched by the calls below
RestingObjects ==
    /\ m_patches = [nPatches |-> 1, interfaces |-> <<>>,
                    boundaries |-> SinglePatch.boundaries,
                    vertices |-> SinglePatch.vertices,
                    basis |-> [q \in 0..0 |-> Bilinear]]
    /\ m_multiBasis = [q \in 0..0 |-> <<KnotA, KnotA>>]
    /\ m_options = [discreteRegularity |-> 1]
    /\ InitObjects

InitFuncData ==
    /\ RestingObjects
    /\ kOut = NoCall
    /\ \E _flags \in SUBSET FuncFlags, patch \in (-1)..MaxPatchId,
          newFlags \in SUBSET FuncFlags :
         kIn = [op |-> "input", flags |-> _flags, patch |-> patch, newFlags |-> newFlags]

\* mutant: the constructor stores the patch it is given
gsFuncData_StoresPatch(_flags, patch) == [flags |-> _flags, patchId |-> patch]

\* gsFuncData(_flags, patch): the members after the initialiser list
gsFuncData(_flags, patch) == [flags |-> _flags, patchId |-> 0]

\* addFlags(newFlags): flags = flags | newFlags
addFlags(fd, newFlags) == [fd EXCEPT !.flags = @ \cup newFlags]

\* maxDeriv()
maxDeriv(fd) ==
    IF "NEED_2ND_DER" \in fd.flags THEN 2
    ELSE IF "NEED_DERIV" \in fd.flags THEN 1
    ELSE IF "NEED_VALUE" \in fd.flags THEN 0
    ELSE -1

FuncDataConstruct ==
    /\ kOut = NoCall
    /\ kOut' = [op |-> "gsFuncData", res |-> gsFuncData(kIn.flags, kIn.patch)]
    /\ UNCHANGED <<Objects, kIn>>

FuncDataAddFlags ==
    /\ kOut.op = "gsFuncData"
    /\ kOut' = [op |-> "addFlags", res |-> addFlags(kOut.res, kIn.newFlags)]
    /\ UNCHANGED <<Objects, kIn>>

NextFuncData ==
    \/ FuncDataConstruct
    \/ FuncDataAddFlags

SpecFuncData == InitFuncData /\ [][NextFuncData]_vars

\* --------------------- gsParametrization::constructAndSolveEquationSystem_2
\* largest number of inner and of boundary vertices of a mesh
MaxInner == 2
MaxBoundary == 4

\* the last value of the loop counter k
LastIteration == 100

\* k % 5 == 0: the flat mesh is written every MeshEvery-th pass
MeshEvery == 5

InitIterate ==
    /\ RestingObjects
    /\ kOut = NoCall
    /\ \E n \in 0..MaxInner, b \in 3..MaxBoundary :
         kIn = [op |-> "input", n |-> n, N |-> n + b]

\* LHS and RHS are filled: rows 0..n-1 from the lambdas with the initial
\* guess, rows n..N-1 from the parameter points of the boundary; the loop
\* starts at k = 0. products counts the updates RHS = LHS * RHS.
IterateStart ==
    /\ kIn.op = "input"
    /\ kOut = NoCall
    /\ kOut' = [op |-> "constructAndSolveEquationSystem_2", at |-> "loop",
                k |-> 0, products |-> 0, stored |-> 0, meshes |-> {}]
    /\ UNCHANGED <<Objects, kIn>>

\* mutant: the loop stops before k reaches its last value
IterateStep_StopsEarly ==
    /\ kOut.op = "constructAndSolveEquationSystem_2"
    /\ kOut.at = "loop"
    /\ kOut.k < LastIteration
    /\ kOut' = [kOut EXCEPT
                  !.k = @ + 1,
                  !.products = @ + 1,
                  !.stored = kOut.products + 1,
                  !.meshes = IF kOut.k % MeshEvery = 0 THEN @ \cup {kOut.k} ELSE @]
    /\ UNCHANGED <<Objects, kIn>>

\* one pass of for(k = 0; k <= 100; k++): sol = LHS * RHS, RHS = sol, the
\* inner parameter points are overwritten, every fifth pass writes a mesh
IterateStep ==
    /\ kOut.op = "constructAndSolveEquationSystem_2"
    /\ kOut.at = "loop"
    /\ kOut.k <= LastIteration
    /\ kOut' = [kOut EXCEPT
                  !.k = @ + 1,
                  !.products = @ + 1,
                  !.stored = kOut.products + 1,
                  !.meshes = IF kOut.k % MeshEvery = 0 THEN @ \cup {kOut.k} ELSE @]
    /\ UNCHANGED <<Objects, kIn>>

\* the loop condition fails and the function returns
IterateReturn ==
    /\ kOut.op = "constructAndSolveEquationSystem_2"
    /\ kOut.at = "loop"
    /\ kOut.k > LastIteration
    /\ kOut' = [kOut EXCEPT !.at = "returned"]
    /\ UNCHANGED <<Objects, kIn>>

NextIterate ==
    \/ IterateStart
    \/ IterateStep
    \/ IterateReturn

\* the function runs to its end once called: no step waits for anything
SpecIterate == InitIterate /\ [][NextIterate]_vars /\ WF_vars(NextIterate)

\* ------------- gsParametrization::Neighbourhood::getBoundaryCorners, method 4
\* range is a multiple of 1/RangeDen, up to MaxRange/RangeDen
RangeDen == 8
MaxRange == 4

\* lengths of the boundary edges
EdgeLengths == {1, 2}

\* the orders in which n boundary vertices can come out of the sort by angle
Orders(n) == {f \in [1..n -> 1..n] : \A i, j \in 1..n : f[i] = f[j] => i = j}

\* boundary vertices 1..nB in a cycle, edge[i] the length of the edge from
\* vertex i to its successor; angles the vertices sorted by inner angle
InitCorners ==
    /\ RestingObjects
    /\ kOut = NoCall
    /\ \E nB \in 3..MaxBoundary :
         \E edge \in [1..nB -> EdgeLengths], angles \in Orders(nB), range \in 0..MaxRange :
            kIn = [op |-> "input", nB |-> nB, edge |-> edge, angles |-> angles,
                   range |-> range]

\* gsHalfEdgeMesh::getBoundaryLength
getBoundaryLength(in) == SeqSum(in.edge)

\* gsHalfEdgeMesh::getShortestBoundaryDistanceBetween: the shorter of the
\* two ways round the boundary
getShortestBoundaryDistanceBetween(in, i, j) ==
    LET lo == Min(i, j)
        hi == Max(i, j)
        way == SeqSum([k \in 1..(hi - lo) |-> in.edge[lo + k - 1]])
    IN Min(way, getBoundaryLength(in) - way)

\* flag after the loop over the corners: no corner is nearer to the
\* candidate than range times the boundary length
FarEnough(in, candidate, corners) ==
    \A c \in 1..Len(corners) :
       ~(getShortestBoundaryDistanceBetween(in, candidate, corners[c]) * RangeDen
            < in.range * getBoundaryLength(in))

\* std::sort of the corners
sort(s) == SortSeq(s, LAMBDA a, b : a < b)

\* the vertex of smallest angle is the first corner
CornersStart ==
    /\ kIn.op = "input"
    /\ kOut = NoCall
    /\ kOut' = [op |-> "getBoundaryCorners", at |-> "loop",
                corners |-> <<Head(kIn.angles)>>, angles |-> Tail(kIn.angles)]
    /\ UNCHANGED <<Objects, kIn>>

\* one pass of while(corners.size() < 4) with a candidate left
CornersStep ==
    /\ kOut.op = "getBoundaryCorners"
    /\ kOut.at = "loop"
    /\ Len(kOut.corners) < 4
    /\ kOut.angles # <<>>
    /\ kOut' = [kOut EXCEPT
                  !.corners = IF FarEnough(kIn, Head(kOut.angles), kOut.corners)
                              THEN Append(@, Head(kOut.angles)) ELSE @,
                  !.angles = Tail(@)]
    /\ UNCHANGED <<Objects, kIn>>

\* one pass of the loop with no candidate left: angles.front() and
\* angles.erase(angles.begin()) on an empty vector. The program stops, or
\* the pass goes on with whatever index the read gives.
CornersStepEmpty ==
    /\ kOut.op = "getBoundaryCorners"
    /\ kOut.at = "loop"
    /\ Len(kOut.corners) < 4
    /\ kOut.angles = <<>>
    /\ \/ kOut' = [kOut EXCEPT !.at = "undefined"]
       \/ \E stale \in 1..kIn.nB :
             /\ FarEnough(kIn, stale, kOut.corners)
             /\ kOut' = [kOut EXCEPT !.corners = Append(@, stale)]
    /\ UNCHANGED <<Objects, kIn>>

\* four corners are found: they are sorted and returned
CornersReturn ==
    /\ kOut.op = "getBoundaryCorners"
    /\ kOut.at = "loop"
    /\ Len(kOut.corners) = 4
    /\ kOut' = [kOut EXCEPT !.at = "returned", !.corners = sort(@)]
    /\ UNCHANGED <<Objects, kIn>>

NextCorners ==
    \/ CornersStart
    \/ CornersStep
    \/ CornersStepEmpty
    \/ CornersReturn

SpecCorners == InitCorners /\ [][NextCorners]_vars

\* ---- gsParametrization::constructAndSolveEquationSystem, free boundary
\* the four lists of boundary vertices between the corners
SideNames == {"bot", "rgt", "top", "lft"}

\* n inner vertices in rows 0..n-1, the boundary vertices in rows n..N-1;
\* four of them are the corners, in the order of the corner file, the
\* others lie on one of the four sides
InitSystem ==
    /\ RestingObjects
    /\ kOut = NoCall
    /\ \E n \in 0..MaxInner, b \in 4..MaxBoundary :
         \E corners \in [1..4 -> n..(n + b - 1)] :
            /\ \A i, j \in 1..4 : corners[i] = corners[j] => i = j
            /\ \E side \in [(n..(n + b - 1)) \ {corners[i] : i \in 1..4} -> SideNames] :
                  kIn = [op |-> "input", n |-> n, N |-> n + b, corners |-> corners,
                         side |-> side]

\* the entries LHS(i, j), j = 0..N-1, of a set of rows: -lambdas[j], and
\* T(1) on the diagonal when diag holds
RowsEntries(rows, N, diag) ==
    [cell \in {<<i, j>> : i \in rows, j \in 0..(N - 1)} |->
       IF diag /\ cell[2] = cell[1] THEN "1" ELSE "-lambda"]

\* right-hand sides of the corners, by position in the corner list
CornerRHSx(i) == IF i < 2 THEN 0 ELSE 1
CornerRHSy(i) == IF i = 1 \/ i = 2 THEN 1 ELSE 0

\* the entries written into LHSx, LHSy, RHSx and RHSy before the systems are
\* solved; every other entry of the four matrices keeps what the allocation
\* left there. corners is indexed from 1, the loop counter i from 0.
constructAndSolveEquationSystem(n, N, corners, side) ==
    LET on(name) == {i \in DOMAIN side : side[i] = name}
        interior == RowsEntries(0..(n - 1), N, TRUE)
        \* for (size_t i=n; i<4; i++)
        visited == n..3
        cornersX == [cell \in {<<corners[i + 1], corners[i + 1]>> : i \in visited} |-> "1"]
        cornersY == [cell \in {<<i, corners[i + 1]>> : i \in visited} |-> "1"]
        cornersRHSx == [j \in {corners[i + 1] : i \in visited} |->
                          CornerRHSx(CHOOSE i \in visited : corners[i + 1] = j)]
        cornersRHSy == [j \in {corners[i + 1] : i \in visited} |->
                          CornerRHSy(CHOOSE i \in visited : corners[i + 1] = j)]
        sidesX == RowsEntries(on("bot") \cup on("top"), N, TRUE)
                  @@ RowsEntries(on("lft") \cup on("rgt"), N, FALSE)
        sidesY == RowsEntries(on("bot") \cup on("top"), N, FALSE)
                  @@ RowsEntries(on("lft") \cup on("rgt"), N, TRUE)
    IN [LHSx |-> sidesX @@ cornersX @@ interior,
        LHSy |-> sidesY @@ cornersY @@ interior,
        RHSx |-> [i \in on("rgt") |-> 1] @@ cornersRHSx,
        RHSy |-> [i \in on("top") |-> 1] @@ cornersRHSy]

CallSystem ==
    /\ kIn.op = "input"
    /\ kOut = NoCall
    /\ kOut' = [op |-> "constructAndSolveEquationSystem",
                res |-> constructAndSolveEquationSystem(kIn.n, kIn.N, kIn.corners, kIn.side)]
    /\ UNCHANGED <<Objects, kIn>>

NextSystem == CallSystem

SpecSystem == InitSystem /\ [][NextSystem]_vars

\* ----------------------- gsParametrization::createRestrictedFlatMesh
\* largest number of triangles of the unfolded mesh
MaxTriangles == 1

\* u coordinates of the vertices, in units of 1/One: left of the domain,
\* on its left edge, inside, on its right edge, right of it
Coordinates == {-1, 0, Half, One, One + 1}

\* the unfolded mesh: the u coordinates of the three vertices of every
\* triangle
InitFlatMesh ==
    /\ RestingObjects
    /\ kOut = NoCall
    /\ \E nT \in 1..MaxTriangles :
         \E triangles \in [1..nT -> [0..2 -> Coordinates]] :
            kIn = [op |-> "input", triangles |-> triangles]

\* out[j]: vertex j lies outside the domain
Outside(u) == u < 0 \/ u > One

\* mutant: the triangle with only its last vertex outside is handed on in
\* its original order
RestrictTriangle_Unrotated(vh) ==
    LET out == [j \in 0..2 |-> Outside(vh[j])]
        call(f, a, b, c) == [handler |-> f, args |-> <<a, b, c>>]
    IN IF ~out[0] /\ ~out[1] /\ ~out[2]
       THEN call("addOneFlatTriangleNotIntersectingBoundary", 0, 1, 2)
       ELSE IF out[0] /\ ~out[1] /\ out[2]
       THEN call("addThreeFlatTrianglesTwoOut", 0, 1, 2)
       ELSE IF out[0] /\ out[1] /\ ~out[2]
       THEN call("addThreeFlatTrianglesTwoOut", 1, 2, 0)
       ELSE IF ~out[0] /\ out[1] /\ out[2]
       THEN call("addThreeFlatTrianglesTwoOut", 2, 0, 1)
       ELSE IF ~out[0] /\ ~out[1] /\ out[2]
       THEN call("addThreeFlatTrianglesOneOut", 0, 1, 2)
       ELSE IF ~out[0] /\ out[1] /\ ~out[2]
       THEN call("addThreeFlatTrianglesOneOut", 0, 1, 2)
       ELSE IF out[0] /\ ~out[1] /\ ~out[2]
       THEN call("addThreeFlatTrianglesOneOut", 2, 0, 1)
       ELSE call("addOneFlatTriangleNotIntersectingBoundary", 0, 1, 2)

\* the body of the loop over the triangles: the handler called for the
\* triangle with vertices vh[0], vh[1], vh[2] and the positions, in vh, of
\* the vertices passed to it
RestrictTriangle(vh) ==
    LET out == [j \in 0..2 |-> Outside(vh[j])]
        call(f, a, b, c) == [handler |-> f, args |-> <<a, b, c>>]
    IN IF ~out[0] /\ ~out[1] /\ ~out[2]
       THEN call("addOneFlatTriangleNotIntersectingBoundary", 0, 1, 2)
       ELSE IF out[0] /\ ~out[1] /\ out[2]
       THEN call("addThreeFlatTrianglesTwoOut", 0, 1, 2)
       ELSE IF out[0] /\ out[1] /\ ~out[2]
       THEN call("addThreeFlatTrianglesTwoOut", 1, 2, 0)
       ELSE IF ~out[0] /\ out[1] /\ out[2]
       THEN call("addThreeFlatTrianglesTwoOut", 2, 0, 1)
       ELSE IF ~out[0] /\ ~out[1] /\ out[2]
       THEN call("addThreeFlatTrianglesOneOut", 1, 2, 0)
       ELSE IF ~out[0] /\ out[1] /\ ~out[2]
       THEN call("addThreeFlatTrianglesOneOut", 0, 1, 2)
       ELSE IF out[0] /\ ~out[1] /\ ~out[2]
       THEN call("addThreeFlatTrianglesOneOut", 2, 0, 1)
       ELSE call("addOneFlatTriangleNotIntersectingBoundary", 0, 1, 2)

\* createRestrictedFlatMesh: the handler calls made, one per triangle
createRestrictedFlatMesh(triangles) ==
    [i \in 1..Len(triangles) |-> RestrictTriangle(triangles[i])]

CallRestrictedFlatMesh ==
    /\ kIn.op = "input"
    /\ kOut = NoCall
    /\ kOut' = [op |-> "createRestrictedFlatMesh",
                res |-> createRestrictedFlatMesh(kIn.triangles)]
    /\ UNCHANGED <<Objects, kIn>>

NextFlatMesh == CallRestrictedFlatMesh

SpecFlatMesh == InitFlatMesh /\ [][NextFlatMesh]_vars

\* ------------------------------------------------------- properties
\* position of a logged step of compute() in the prescribed order
Rank(e) ==
    CASE e[1] = "insert"             -> 1
      [] e[1] = "saveBasisInterface" -> 2
      [] e[1] = "saveBasisBoundary"  -> 3
      [] e[1] = "saveBasisVertex"    -> 4
      [] e[1] = "makeCompressed"     -> 5

\* the positions of the log at which a step of the given kind stands
Events(tag) == {k \in 1..Len(log) : log[k][1] = tag}

\* the passes of a builder loop the log holds
Passes(tag) == {log[k][2] : k \in Events(tag)}

\* compute() has returned and nothing was called since that resets the log
RunComplete == pc.at \in {"idle", "getSystem"} /\ log # <<>>

\* the interior loop of the current run of compute() is over
InteriorDone ==
    \/ pc.at \in {"interface", "boundary", "vertex", "compress", "getSystem"}
    \/ RunComplete

\* C1: in one run of compute() the interior insertions of every patch come
\* first, then all interface builders, then all boundary builders, then all
\* vertex builders, and makeCompressed() is called exactly once, as the last
\* step, after the three builder loops.
C1_ComputeOrder ==
    /\ \A a \in 1..(Len(log) - 1) : Rank(log[a]) <= Rank(log[a + 1])
    /\ (\E b \in 1..Len(log) : Rank(log[b]) > 1) =>
          Cardinality(Events("insert")) =
             SeqSum([q \in 1..nPatches |-> Len(PatchInserts(q - 1))])
    /\ (\E b \in 1..Len(log) : Rank(log[b]) > 2) =>
          Passes("saveBasisInterface") = 0..(Len(m_patches.interfaces) - 1)
    /\ (\E b \in 1..Len(log) : Rank(log[b]) > 3) =>
          Passes("saveBasisBoundary") = 0..(Len(m_patches.boundaries) - 1)
    /\ (\E b \in 1..Len(log) : Rank(log[b]) > 4) =>
          Passes("saveBasisVertex") = 0..(Len(m_patches.vertices) - 1)
    /\ Cardinality(Events("makeCompressed")) <= 1
    /\ RunComplete =>
          /\ log[Len(log)][1] = "makeCompressed"
          /\ Cardinality(Events("makeCompressed")) = 1

\* C1 witness: a finished run on glued patches that logged all five kinds
\* of steps
C1_Witness ==
    /\ RunComplete
    /\ pc.at = "idle"
    /\ \A tag \in {"insert", "saveBasisInterface", "saveBasisBoundary",
                   "saveBasisVertex", "makeCompressed"} : Events(tag) # {}

\* extents of the interior space of patch np
InnerDim(np, dir) == size(m_bases[np + 1].inner[dir + 1])

\* the interior block of patch np in closed form
InteriorBlock(np) ==
    LET dim_u == InnerDim(np, 0)
        dim_v == InnerDim(np, 1)
        sr == SeqSum([k \in 1..np |-> m_bases[k].rows])
        sc == SeqSum([k \in 1..np |-> m_bases[k].cols])
    IN { <<"insert", np, sr + (j - 2) * (dim_u - 4) + (i - 2), sc + j * dim_u + i>> :
           j \in 2..(dim_v - 3), i \in 2..(dim_u - 3) }

\* C2: for every patch np the interior loop inserts the value 1 at row
\* shift_row + k, column shift_col + j * dim_u + i, for j in 2..dim_v - 3 and
\* i in 2..dim_u - 3 taken row by row, k counting the insertions from 0; that
\* is (dim_u - 4) * (dim_v - 4) entries, one per row, none when an extent is
\* below 5; the shifts are the summed extents of the patches before np.
C2_InteriorEntries ==
    InteriorDone =>
       \A np \in 0..(nPatches - 1) :
          LET at == {k \in Events("insert") : log[k][2] = np}
              dim_u == InnerDim(np, 0)
              dim_v == InnerDim(np, 1)
          IN /\ {log[k] : k \in at} = InteriorBlock(np)
             /\ Cardinality(at) = IF dim_u > 4 /\ dim_v > 4
                                  THEN (dim_u - 4) * (dim_v - 4) ELSE 0
             /\ \A k \in at, l \in at : k < l => log[k][3] + (l - k) = log[l][3]
             /\ pc.at # "idle" =>
                   \A k \in at : <<log[k][3], log[k][4], 1>> \in BagToSet(m_matrix.entries)

\* C2 witness: the second patch got a shifted block of several entries and
\* the first one a block of more than one row of the grid
C2_Witness ==
    /\ InteriorDone
    /\ nPatches = 2
    /\ InnerDim(0, 0) # InnerDim(0, 1)
    /\ InnerDim(0, 0) > 5 /\ InnerDim(0, 1) > 5
    /\ Cardinality({k \in Events("insert") : log[k][2] = 1}) > 1
    /\ m_bases[1].rows # m_bases[1].cols

\* C3: after init() the matrix has as many rows as the sum of size_rows()
\* and as many columns as the sum of size_cols() over the patches, and
\* m_bases holds exactly one container per patch.
C3_MatrixSizedOverPatches ==
    [][Len(m_bases') # Len(m_bases) =>
          /\ Len(m_bases') = nPatches
          /\ m_matrix'.rows = SeqSum([q \in 1..nPatches |-> m_bases'[q].rows])
          /\ m_matrix'.cols = SeqSum([q \in 1..nPatches |-> m_bases'[q].cols])]_vars

\* C4: running compute() again on the initialised object leaves the matrix
\* of the first run: the same entries, none of them inserted twice.
C4_RecomputeSameMatrix ==
    /\ \A e \in BagToSet(m_matrix.entries) : CopiesIn(e, m_matrix.entries) = 1
    /\ ~(pc.at = "crashed" /\ pc.caller # "none")

C6_HandedBasisFromCompressed ==
    handed.to # "none" =>
       /\ handed.basis.set
       /\ handed.basis.matrix.compressed

\* the inputs of the call recorded in kOut
CalledOn(ops) == kOut.op \in ops

\* the rule of the plus and minus space applied to one base knot vector
PlusOf(kv, p, r) == IF p - r # 1 THEN reduceMultiplicity(kv, 1) ELSE kv
MinusOf(kv, p, r) == PlusOf(degreeDecrease(kv, 1), p, r)

\* C7: the plus space of an interface has the degree p = max of the two
\* input degrees and is derived from the input of the higher degree, whether
\* or not the degrees agree.
C7_PlusFromHigherDegree ==
    CalledOn({"createPlusMinusSpace2"}) =>
       LET p == Max(degree(kIn.kv1), degree(kIn.kv2))
       IN /\ degree(kOut.res.plus) = p
          /\ \E kv \in {kIn.kv1, kIn.kv2} :
                /\ degree(kv) = p
                /\ kOut.res.plus = PlusOf(kv, p, discreteRegularity)

\* C8: with p the degree of the plus space, the maximum of the input
\* degrees, the minus space has degree p - 1, comes from the same base knot
\* vector and has the unique break points of the plus space.
C8_MinusOneDegreeBelow ==
    CalledOn({"createPlusMinusSpace2", "createPlusMinusSpace1"}) =>
       LET given == IF kOut.op = "createPlusMinusSpace1"
                    THEN {kIn.kv1} ELSE {kIn.kv1, kIn.kv2}
           p == degree(kOut.res.plus)
       IN /\ \A kv \in given : degree(kv) <= p
          /\ \E kv \in given : degree(kv) = p
          /\ degree(kOut.res.minus) = p - 1
          /\ \E kv \in given :
                /\ kOut.res.plus = PlusOf(kv, p, discreteRegularity)
                /\ kOut.res.minus = MinusOf(kv, p, discreteRegularity)

Mismatched ==
    {k \in 1..Len(m_patches.interfaces) :
       LET item == m_patches.interfaces[k]
           kv_1 == component(m_multiBasis[item.first.patch],
                             IF item.first.side > 2 THEN 0 ELSE 1)
           kv_2 == component(m_multiBasis[item.second.patch],
                             IF item.second.side > 2 THEN 0 ELSE 1)
       IN unique(kv_1) # unique(kv_2)}

\* C10: an interface with different unique break points on its two sides is
\* flagged as an error and init() assigns no plus, minus, gluing-data or edge
\* space to its sides.
C10_MismatchAssignsNothing ==
    Len(m_bases) >= nPatches =>
       \A k \in Mismatched :
          LET item == m_patches.interfaces[k]
          IN /\ "NotMatching" \in info
             /\ \A end \in {item.first, item.second} :
                   \A field \in {"plus", "minus", "gluingData", "edge"} :
                      m_bases[end.patch + 1][field][end.side] = <<>>

\* the two sides of interface k as init() reads them
InterfaceSides(k) ==
    LET item == m_patches.interfaces[k]
        dir_1 == IF item.first.side > 2 THEN 0 ELSE 1
        dir_2 == IF item.second.side > 2 THEN 0 ELSE 1
    IN [first |-> item.first, second |-> item.second,
        dir_1 |-> dir_1, dir_2 |-> dir_2,
        kv_1 |-> component(m_multiBasis[item.first.patch], dir_1),
        kv_2 |-> component(m_multiBasis[item.second.patch], dir_2),
        geo_1 |-> component(m_multiBasis[item.first.patch], 1 - dir_1),
        geo_2 |-> component(m_multiBasis[item.second.patch], 1 - dir_2)]

\* the clamped knot vector of degree p over the break points u with every
\* interior knot of multiplicity mi
Clamped(p, u, mi) ==
    [deg |-> p, u |-> u,
     m |-> [k \in 1..Len(u) |-> IF k = 1 \/ k = Len(u) THEN p + 1 ELSE mi]]

\* the diagnostics a pair of interface knot vectors calls for
Diagnostics(kv_1, kv_2) ==
    (IF unique(kv_1) # unique(kv_2) THEN {"PlusMinus1", "NotMatching"} ELSE {})
    \cup (IF degree(kv_1) # degree(kv_2) THEN {"PlusMinus2"} ELSE {})
    \cup (IF multiplicities(kv_1) # multiplicities(kv_2) THEN {"PlusMinus4"} ELSE {})

\* what both patches of interface k hold when plus and minus space follow
\* the rule for degree p on the second knot vector
SecondSideAssigned(k, p) ==
    LET s == InterfaceSides(k)
        r == discreteRegularity
    IN \A end \in {s.first, s.second} :
          /\ m_bases[end.patch + 1].plus[end.side] = <<PlusOf(s.kv_2, p, r)>>
          /\ m_bases[end.patch + 1].minus[end.side] = <<MinusOf(s.kv_2, p, r)>>
          /\ m_bases[end.patch + 1].gluingData[end.side] =
                <<Clamped(p_tilde, unique(s.kv_2), p_tilde - r_tilde)>>

\* C11 as stated: on a mismatch of break points, degrees or multiplicities
\* the functions only emit a diagnostic, the result is computed from the
\* second knot vector alone, and init() assigns it to both patches.
C11_SecondKnotVectorAlone ==
    Len(m_bases) >= nPatches =>
       \A k \in 1..Len(m_patches.interfaces) :
          LET s == InterfaceSides(k)
          IN Diagnostics(s.kv_1, s.kv_2) # {} =>
                /\ Diagnostics(s.kv_1, s.kv_2) \subseteq info
                /\ SecondSideAssigned(k, degree(s.kv_2))

\* C11: on a mismatch of break points, degrees or multiplicities the
\* functions only emit a diagnostic and init() assigns to both patches the
\* spaces built on the second knot vector; the first one enters only through
\* its degree, in the test max(degree(kv1), degree(kv2)) - r # 1 that decides
\* whether the multiplicities are reduced.
C11_BuiltOnSecondKnotVector ==
    Len(m_bases) >= nPatches =>
       \A k \in 1..Len(m_patches.interfaces) :
          LET s == InterfaceSides(k)
          IN Diagnostics(s.kv_1, s.kv_2) # {} =>
                /\ Diagnostics(s.kv_1, s.kv_2) \subseteq info
                /\ SecondSideAssigned(k, Max(degree(s.kv_1), degree(s.kv_2)))

\* C11 witness: init() ran on an interface whose first side has the higher
\* degree and other break points, with the reduction decided by that degree
C11_Witness ==
    /\ Len(m_bases) >= nPatches
    /\ \E k \in 1..Len(m_patches.interfaces) :
          LET s == InterfaceSides(k)
          IN /\ degree(s.kv_1) > degree(s.kv_2)
             /\ unique(s.kv_1) # unique(s.kv_2)
             /\ degree(s.kv_1) - discreteRegularity = 1

\* kv has an interior break point, and all of them have one multiplicity
HasInterior(kv) == Interior(kv) # {}
UniformInterior(kv) ==
    \A k \in Interior(kv), l \in Interior(kv) : multiplicities(kv)[k] = multiplicities(kv)[l]

\* continuity at the interior break points: degree minus interior multiplicity
Continuity(kv) == degree(kv) - multiplicities(kv)[CHOOSE k \in Interior(kv) : TRUE]

GluedGroups == {g \in 1..Len(m_patches.vertices) : Len(m_patches.vertices[g]) > 1}
SingleGroups == {g \in 1..Len(m_patches.vertices) : Len(m_patches.vertices[g]) = 1}

\* the (patch, corner) pairs of vertex group g
Pairs(g) == {m_patches.vertices[g][j] : j \in 1..Len(m_patches.vertices[g])}

\* kv with the continuity at its interior break points brought down to c
\* where it is higher
ReducedTo(kv, c) ==
    [kv EXCEPT !.m = [k \in 1..Len(kv.m) |->
                        IF k \in Interior(kv) THEN Max(kv.m[k], kv.deg - c) ELSE kv.m[k]]]

\* the vertex space as stated: degree raised by p_tilde - 1, continuity
\* brought to r - 1, and on to r - r_tilde - 1 when r_tilde < r - 1
StatedVertexSpace(kv, r) ==
    LET elevated == degreeElevate(kv, p_tilde - 1)
        first == ReducedTo(elevated, r - 1)
    IN IF r_tilde < r - 1 THEN ReducedTo(first, r - r_tilde - 1) ELSE first

\* C14: every (patch, corner) of a vertex group of more than one pair holds
\* the basis of its patch with the degree raised by p_tilde - 1 in both
\* directions and the continuity reduced to r - 1, for every r, and further
\* to r - r_tilde - 1 when r_tilde < r - 1.
C14_GluedVertexSpace ==
    Len(m_bases) >= nPatches =>
       \A g \in GluedGroups : \A pc_1 \in Pairs(g) :
          m_bases[pc_1.patch + 1].vertex[pc_1.corner] =
             <<StatedVertexSpace(m_multiBasis[pc_1.patch][1], discreteRegularity),
               StatedVertexSpace(m_multiBasis[pc_1.patch][2], discreteRegularity)>>

\* number of interfaces among the patches of vertex group g
GroupInterfaces(g) ==
    LET among == {q.patch : q \in Pairs(g)}
    IN Cardinality({k \in 1..Len(m_patches.interfaces) :
                      /\ m_patches.interfaces[k].first.patch \in among
                      /\ m_patches.interfaces[k].second.patch \in among})

\* C15: every vertex group of more than one (patch, corner) pair gets kind 0
\* on all its corners when the number of pairs equals the number of
\* interfaces among the patches involved, and kind 1 on all its corners in
\* every other case.
C15_KindOfGluedVertex ==
    Len(m_bases) >= nPatches =>
       \A g \in GluedGroups : \A pc_1 \in Pairs(g) :
          m_bases[pc_1.patch + 1].kind[pc_1.corner] =
             IF Cardinality(Pairs(g)) = GroupInterfaces(g) THEN <<0>> ELSE <<1>>

\* the continuity of kv reduced by one when its degree minus r equals 1
ReducedWhenMaximal(kv, r) ==
    IF degree(kv) - r = 1 THEN reduceContinuity(kv, 1) ELSE kv

\* C16: the one (patch, corner) pair of a vertex group of one pair gets kind
\* -1 and the basis of its patch, the degree not raised, with the continuity
\* of a direction reduced by 1 exactly when the degree of that direction
\* minus the discrete regularity equals 1.
C16_BoundaryVertexSpace ==
    Len(m_bases) >= nPatches =>
       \A g \in SingleGroups : \A pc_1 \in Pairs(g) :
          /\ m_bases[pc_1.patch + 1].kind[pc_1.corner] = <<-1>>
          /\ m_bases[pc_1.patch + 1].vertex[pc_1.corner] =
                <<ReducedWhenMaximal(m_multiBasis[pc_1.patch][1], discreteRegularity),
                  ReducedWhenMaximal(m_multiBasis[pc_1.patch][2], discreteRegularity)>>

\* the parametric direction along a side: 1 for west and east, 0 for south
\* and north
DirOf(side) == IF side < 3 THEN 1 ELSE 0

\* C17: every boundary (patch, side) holds the plus and the minus space of
\* the one-sided rule on the patch basis along the side, as geo basis the
\* patch basis across the side with the continuity reduced by one exactly
\* when its degree minus the discrete regularity equals 1, and as edge basis
\* the one-sided local edge space of plus and minus along the side crossed
\* with that geo basis.
C17_BoundarySpaces ==
    Len(m_bases) >= nPatches =>
       \A n \in 1..Len(m_patches.boundaries) :
          LET bit == m_patches.boundaries[n]
              r == discreteRegularity
              along == component(m_multiBasis[bit.patch], DirOf(bit.side))
              across == component(m_multiBasis[bit.patch], 1 - DirOf(bit.side))
              plus == PlusOf(along, degree(along), r)
              minus == MinusOf(along, degree(along), r)
              geo == ReducedWhenMaximal(across, r)
              edge == createLokalEdgeSpace1(plus, minus,
                         component(m_patches.basis[bit.patch], DirOf(bit.side))).kv1
              c == m_bases[bit.patch + 1]
          IN /\ c.plus[bit.side] = <<plus>>
             /\ c.minus[bit.side] = <<minus>>
             /\ c.geo[bit.side] = <<geo>>
             /\ c.edge[bit.side] = (IF DirOf(bit.side) = 0 THEN <<edge, geo>> ELSE <<geo, edge>>)

\* C17 witness: init() ran on a patch with one boundary side whose geo basis
\* lost an order of continuity and another whose geo basis was kept
C17_Witness ==
    /\ Len(m_bases) >= nPatches
    /\ \E n, l \in 1..Len(m_patches.boundaries) :
          LET a == m_patches.boundaries[n]
              b == m_patches.boundaries[l]
              geo_a == component(m_multiBasis[a.patch], 1 - DirOf(a.side))
              geo_b == component(m_multiBasis[b.patch], 1 - DirOf(b.side))
          IN /\ degree(geo_a) - discreteRegularity = 1
             /\ m_bases[a.patch + 1].geo[a.side] = <<reduceContinuity(geo_a, 1)>>
             /\ m_bases[a.patch + 1].geo[a.side] # <<geo_a>>
             /\ degree(geo_b) - discreteRegularity # 1
             /\ m_bases[b.patch + 1].geo[b.side] = <<geo_b>>
             /\ m_bases[a.patch + 1].edge[a.side] # <<>>

\* C18: the two patches of every interface hold the same plus basis, the
\* same minus basis and the same gluing-data basis; the edge basis of each
\* carries the local edge knot vector of these three in the direction of its
\* side (1 for sides 1 and 2, 0 for sides 3 and 4) and the knot vector of the
\* patch's own geo basis, the patch basis across the side, in the other.
C18_InterfaceSpaces ==
    Len(m_bases) >= nPatches =>
       \A k \in 1..Len(m_patches.interfaces) :
          LET s == InterfaceSides(k)
              c_1 == m_bases[s.first.patch + 1]
              c_2 == m_bases[s.second.patch + 1]
              side_1 == s.first.side
              side_2 == s.second.side
              kv_edge == createLokalEdgeSpace2(c_1.plus[side_1][1], c_1.minus[side_1][1],
                            c_1.gluingData[side_1][1], c_1.gluingData[side_1][1],
                            s.geo_1, s.geo_2).kv1
          IN /\ c_1.plus[side_1] # <<>> /\ c_1.plus[side_1] = c_2.plus[side_2]
             /\ c_1.minus[side_1] # <<>> /\ c_1.minus[side_1] = c_2.minus[side_2]
             /\ c_1.gluingData[side_1] # <<>>
             /\ c_1.gluingData[side_1] = c_2.gluingData[side_2]
             /\ c_1.geo[side_1] = <<s.geo_1>>
             /\ c_2.geo[side_2] = <<s.geo_2>>
             /\ component(c_1.edge[side_1], DirOf(side_1)) = kv_edge
             /\ component(c_1.edge[side_1], 1 - DirOf(side_1)) = s.geo_1
             /\ component(c_2.edge[side_2], DirOf(side_2)) = kv_edge
             /\ component(c_2.edge[side_2], 1 - DirOf(side_2)) = s.geo_2

\* C18 witness: init() ran on an interface whose two patches have different
\* bases across the side, so that their edge bases differ
C18_Witness ==
    /\ Len(m_bases) >= nPatches
    /\ \E k \in 1..Len(m_patches.interfaces) :
          LET s == InterfaceSides(k)
              e_1 == m_bases[s.first.patch + 1].edge[s.first.side]
              e_2 == m_bases[s.second.patch + 1].edge[s.second.side]
          IN /\ s.geo_1 # s.geo_2
             /\ e_1 # <<>> /\ e_2 # <<>> /\ e_1 # e_2
             /\ component(e_1, DirOf(s.first.side)) = component(e_2, DirOf(s.second.side))

\* C19: for every interface init() hands to the knot-space functions, for
\* the first side, the knot vector of the first patch's geometry basis in
\* the direction of the first side and, for the second side, the knot vector
\* of the second patch's geometry basis in the direction of the second side.
C19_PatchKnotsOfEachSide ==
    Len(m_bases) >= nPatches =>
       \A k \in 1..Len(m_patches.interfaces) :
          LET item == m_patches.interfaces[k]
          IN /\ PatchKnots(item).kv_patch_1 =
                   component(m_patches.basis[item.first.patch], DirOf(item.first.side))
             /\ PatchKnots(item).kv_patch_2 =
                   component(m_patches.basis[item.second.patch], DirOf(item.second.side))

\* two patches glued along exactly one side: one interface, six boundary
\* sides, four vertex groups of one corner and two of two corners
GluedOnOneSide ==
    /\ nPatches = 2
    /\ Len(m_patches.interfaces) = 1
    /\ Len(m_patches.boundaries) = 6
    /\ Cardinality(SingleGroups) = 4
    /\ Cardinality(GluedGroups) = 2
    /\ \A g \in GluedGroups : Cardinality(Pairs(g)) = 2

\* C20: on two patches glued along exactly one side init() gives kind -1 to
\* each of the four single-corner vertices and kind 1 to both corners of
\* each of the two shared vertices; no corner of either patch has kind 0.
C20_KindsOfTwoGluedPatches ==
    (GluedOnOneSide /\ Len(m_bases) >= nPatches) =>
       /\ \A g \in SingleGroups : \A pc_1 \in Pairs(g) :
             m_bases[pc_1.patch + 1].kind[pc_1.corner] = <<-1>>
       /\ \A g \in GluedGroups : \A pc_1 \in Pairs(g) :
             m_bases[pc_1.patch + 1].kind[pc_1.corner] = <<1>>
       /\ \A q \in Patches : \A corner \in Corners :
             m_bases[q + 1].kind[corner] \in {<<-1>>, <<1>>}

\* C20 witness: init() ran on two patches glued along a north and a south
\* side, and the four corners on the interface have kind 1
C20_Witness ==
    /\ GluedOnOneSide
    /\ Len(m_bases) >= nPatches
    /\ m_patches.interfaces[1].first.side = 4
    /\ Cardinality({pc_1 \in UNION {Pairs(g) : g \in GluedGroups} :
                      m_bases[pc_1.patch + 1].kind[pc_1.corner] = <<1>>}) = 4

\* C21: a gsFuncData constructed with (flags, patch) records the patch it was
\* given: patchId equals the patch argument, for every value of patch.
C21_ConstructorKeepsPatch ==
    CalledOn({"gsFuncData", "addFlags"}) => kOut.res.patchId = kIn.patch

\* the two sides of a patch that meet at a corner
SidesAt(corner) ==
    CASE corner = 1 -> {1, 3}
      [] corner = 2 -> {2, 3}
      [] corner = 3 -> {1, 4}
      [] corner = 4 -> {2, 4}

\* side s of patch q is glued to a patch of the set among
GluedWithin(q, s, among) ==
    \E k \in 1..Len(m_patches.interfaces) :
       LET item == m_patches.interfaces[k]
       IN \/ item.first = PS(q, s) /\ item.second.patch \in among
          \/ item.second = PS(q, s) /\ item.first.patch \in among

\* side s of patch q is a boundary side
OnBoundary(q, s) ==
    \E n \in 1..Len(m_patches.boundaries) : m_patches.boundaries[n] = PS(q, s)

\* C22: whenever init() gave kind 0 to a vertex group, the patches of the
\* group are glued in a closed cycle around the vertex: on every patch of
\* the group both sides meeting at the group's corner are interfaces to
\* another patch of the group, and none of them is a boundary side.
C22_InternalVertexIsEnclosed ==
    Len(m_bases) >= nPatches =>
       \A g \in 1..Len(m_patches.vertices) :
          (\E pc_1 \in Pairs(g) : m_bases[pc_1.patch + 1].kind[pc_1.corner] = <<0>>) =>
             \A pc_1 \in Pairs(g) : \A s \in SidesAt(pc_1.corner) :
                /\ GluedWithin(pc_1.patch, s, {q.patch : q \in Pairs(g)})
                /\ ~OnBoundary(pc_1.patch, s)

\* C24: after init() every (patch, corner) pair of every vertex group holds
\* a vertex basis and a kind in {-1, 0, 1}, whatever the number of
\* interfaces among the patches of the group.
C24_EveryCornerAssigned ==
    Len(m_bases) >= nPatches =>
       \A g \in 1..Len(m_patches.vertices) : \A pc_1 \in Pairs(g) :
          /\ m_bases[pc_1.patch + 1].vertex[pc_1.corner] # <<>>
          /\ m_bases[pc_1.patch + 1].kind[pc_1.corner] \in {<<-1>>, <<0>>, <<1>>}

\* C25: however often init() was called on the object, m_bases holds exactly
\* one container per patch and the matrix has the row and column counts of
\* a single init(): the sums of the extents of these containers.
C25_InitIdempotent ==
    Len(m_bases) >= nPatches =>
       /\ Len(m_bases) = nPatches
       /\ m_matrix.rows = SeqSum([q \in 1..nPatches |-> m_bases[q].rows])
       /\ m_matrix.cols = SeqSum([q \in 1..nPatches |-> m_bases[q].cols])

\* kv with the multiplicity of its first and of its last interior break
\* point raised by one, once when the two are one break point
EndsRepeated(kv) ==
    LET first == 2
        last == Len(kv.u) - 1
    IN [kv EXCEPT !.m = [k \in 1..Len(kv.m) |->
                           IF k = first \/ k = last THEN kv.m[k] + 1 ELSE kv.m[k]]]

\* C26: in the interior basis init() builds for a patch, a direction with
\* degree minus discrete regularity equal to 1 and an interior knot has the
\* multiplicity of its first and of its last interior break point raised by
\* one (once when they coincide) and no break point the input did not have;
\* a direction with another degree keeps its knot vector.
C26_InteriorBasisEnds ==
    Len(m_bases) >= nPatches =>
       \A q \in Patches : \A dir \in 0..1 :
          LET kv == component(m_multiBasis[q], dir)
              inner == component(m_bases[q + 1].inner, dir)
          IN /\ (degree(kv) - discreteRegularity = 1 /\ HasInterior(kv))
                   => /\ unique(inner) = unique(kv)
                      /\ inner = EndsRepeated(kv)
             /\ degree(kv) - discreteRegularity # 1 => inner = kv

\* a step of gsBiharmonicArgyris::constructSolution(): the one call from the
\* idle object that counts as a call, or stops the program, and leaves the
\* containers and the position of the spline object alone
ConstructSolutionStep ==
    /\ pc.at = "idle"
    /\ m_bases' = m_bases
    /\ \/ pc'.at = "crashed"
       \/ calls' = calls + 1 /\ pc' = pc

\* C27: in every sequence of public calls a call that goes through the
\* assembler pointer, constructSolution() among them, finds an assembler
\* that an earlier assemble() created.
C27_AssemblerSetBeforeUse ==
    [][ConstructSolutionStep => argyris.g1BiharmonicAssembler.set]_vars

\* constructAndSolveEquationSystem_2 has returned
IterateReturned ==
    kOut.op = "constructAndSolveEquationSystem_2" /\ kOut.at = "returned"

\* C23 as stated: constructAndSolveEquationSystem_2 performs exactly 100
\* updates RHS = LHS * RHS, with no convergence check, and terminates.
C23_HundredIterations ==
    <>(IterateReturned /\ kOut.products = 100)

\* C23: constructAndSolveEquationSystem_2 terminates for every input after
\* exactly 101 updates RHS = LHS * RHS, one for each k from 0 to 100, never
\* leaving the loop earlier.
C23_HundredAndOneIterations ==
    <>(IterateReturned /\ kOut.products = LastIteration + 1 /\ kOut.stored = LastIteration + 1)

\* C23 witness: the call returned after the pass with k = 100, which wrote
\* the mesh of that pass
C23_Witness ==
    /\ IterateReturned
    /\ kOut.products = 101
    /\ 100 \in kOut.meshes
    /\ kIn.n > 0

\* the next pass of the loop of getBoundaryCorners reads the front of an
\* empty candidate list
ReadsEmptyFront ==
    /\ kOut.op = "getBoundaryCorners"
    /\ kOut.at = "loop"
    /\ Len(kOut.corners) < 4
    /\ kOut.angles = <<>>

\* C28: getBoundaryCorners with method 4 never reads the front of an empty
\* candidate list, and what it returns are exactly 4 corners in ascending
\* order of which every two are at shortest boundary distance at least
\* range times the boundary length.
C28_FourDistantCorners ==
    /\ ~ReadsEmptyFront
    /\ (kOut.op = "getBoundaryCorners" /\ kOut.at = "returned") =>
          /\ Len(kOut.corners) = 4
          /\ \A i, j \in 1..4 : i < j =>
                /\ kOut.corners[i] < kOut.corners[j]
                /\ getShortestBoundaryDistanceBetween(kIn, kOut.corners[i], kOut.corners[j])
                      * RangeDen >= kIn.range * getBoundaryLength(kIn)

\* matrix entry (i, j) was written with the value val
Written(mat, i, j, val) == <<i, j>> \in DOMAIN mat /\ mat[<<i, j>>] = val

\* C29: for every number n of inner vertices the free-boundary
\* constructAndSolveEquationSystem sets, for each of the 4 corners c, a unit
\* diagonal entry in row c of LHSx and of LHSy and the right-hand sides
\* (0,0), (0,1), (1,1), (1,0) for corners 0 to 3 in that order.
C29_CornerRows ==
    CalledOn({"constructAndSolveEquationSystem"}) =>
       \A i \in 0..3 :
          LET c == kIn.corners[i + 1]
          IN /\ Written(kOut.res.LHSx, c, c, "1")
             /\ Written(kOut.res.LHSy, c, c, "1")
             /\ c \in DOMAIN kOut.res.RHSx /\ kOut.res.RHSx[c] = CornerRHSx(i)
             /\ c \in DOMAIN kOut.res.RHSy /\ kOut.res.RHSy[c] = CornerRHSy(i)

\* the positions of the vertices of a triangle that lie outside [0, 1]
OutsideOf(vh) == {j \in 0..2 : vh[j] < 0 \/ vh[j] > One}

\* the cyclic rotations of the original order of the vertices
Rotations == {<<0, 1, 2>>, <<1, 2, 0>>, <<2, 0, 1>>}

\* C30: createRestrictedFlatMesh makes one handler call per triangle: with
\* one vertex outside [0, 1], addThreeFlatTrianglesOneOut with that vertex
\* as middle argument; with two outside, addThreeFlatTrianglesTwoOut with
\* the inside vertex as middle argument; with none or three outside,
\* addOneFlatTriangleNotIntersectingBoundary; the vertices are always passed
\* in a cyclic rotation of their original order.
C30_TriangleDispatch ==
    CalledOn({"createRestrictedFlatMesh"}) =>
       /\ Len(kOut.res) = Len(kIn.triangles)
       /\ \A i \in 1..Len(kIn.triangles) :
             LET outs == OutsideOf(kIn.triangles[i])
                 call == kOut.res[i]
             IN /\ call.args \in Rotations
                /\ Cardinality(outs) = 1 =>
                      /\ call.handler = "addThreeFlatTrianglesOneOut"
                      /\ call.args[2] \in outs
                /\ Cardinality(outs) = 2 =>
                      /\ call.handler = "addThreeFlatTrianglesTwoOut"
                      /\ call.args[2] \notin outs
                /\ Cardinality(outs) \in {0, 3} =>
                      call.handler = "addOneFlatTriangleNotIntersectingBoundary"

\* C30 witness: a triangle whose last vertex alone lies right of the domain
\* went to addThreeFlatTrianglesOneOut, rotated so that this vertex is the
\* middle argument
C30_Witness ==
    /\ CalledOn({"createRestrictedFlatMesh"})
    /\ \E i \in 1..Len(kIn.triangles) :
          /\ OutsideOf(kIn.triangles[i]) = {2}
          /\ kIn.triangles[i][2] > One
          /\ kOut.res[i] = [handler |-> "addThreeFlatTrianglesOneOut", args |-> <<1, 2, 0>>]

====
